---- MODULE Spec2Model ----
(***************************************************************************)
(* Sales trend analysis: the SalesDataAnalyzer pipeline of                 *)
(* homework_1_improved.py (load, validate, join, derive, aggregate,        *)
(* report) and the month x category script homework_2.py (join, derive,    *)
(* group, pivot).                                                          *)
(*                                                                         *)
(* Column names of the workbook are written in English here:               *)
(*   商品编号 product_id     商品销售价 unit_price   商品大类 category       *)
(*   订单日期 order_date     订单数量 quantity                               *)
(*   销售金额 revenue        月份 month                                     *)
(* and the sheets 信息表 / 销售数据表 are "info" / "sales".                  *)
(*                                                                         *)
(* A cell of a table is a record with a kind k: a number (an exact         *)
(* rational n/d, standing for the float64 the code computes with), the     *)
(* missing value nan (NaN, None and NaT alike), a text, a timestamp, or a  *)
(* month label.  A DataFrame is a set of column names and a sequence of    *)
(* rows, each row a function from the column names to cells.               *)
(***************************************************************************)
EXTENDS Integers, Sequences, FiniteSets, TLC

VARIABLES
    workbook,               \* the Excel file self.excel_file, as it is on disk
    df_info,                \* the catalog table (self.df_info / df_info)
    df_sales,               \* the transaction table (self.df_sales / df_sales)
    df_merged,              \* the enriched table (self.df_merged / df_merged)
    monthly_sales,          \* the monthly summary (self.monthly_sales)
    missing_prices,         \* the count process_data computes and logs
    report,                 \* the dict generate_report returned last
    growth,                 \* the value calculate_growth_rate returned last
    monthly_category_sales, \* homework_2: the month x category summary
    pivot_data,             \* homework_2: the pivot of that summary
    call,                   \* the method (or script step) that ran last
    outcome,                \* "ok", or the exception it raised
    processed,              \* whether a call of process_data has returned
    pc                      \* where main() / the script stands

vars == <<workbook, df_info, df_sales, df_merged, monthly_sales, missing_prices,
          report, growth, monthly_category_sales, pivot_data, call, outcome,
          processed, pc>>

-----------------------------------------------------------------------------
(* Bounds of the model.                                                    *)

MaxCat == 2         \* rows of a catalog sheet
MaxSales == 2       \* rows of a transaction sheet
MaxApiRows == 1     \* rows of a sheet of the workbooks used for call sequences

-----------------------------------------------------------------------------
(* Cells.                                                                  *)

None == [k |-> "None"]

NaN == [k |-> "nan"]

Abs(i) == IF i < 0 THEN -i ELSE i

RECURSIVE GCD(_, _)
GCD(a, b) == IF b = 0 THEN a ELSE GCD(b, a % b)

\* The number n/d in lowest terms, with a positive denominator.
Num(n, d) ==
    LET g == GCD(Abs(n), Abs(d))
        s == IF d < 0 THEN -1 ELSE 1
    IN  [k |-> "num", n |-> (s * n) \div g, d |-> (s * d) \div g]

Int2Num(i) == Num(i, 1)

Str(s) == [k |-> "str", s |-> s]

Ts(y, m, dd) == [k |-> "ts", y |-> y, m |-> m, dd |-> dd]

Month(y, m) == [k |-> "month", y |-> y, m |-> m]

IsNull(c) == c.k = "nan"

IsNumber(c) == c.k = "num"

\* float arithmetic: NaN is absorbing
AddCell(a, b) ==
    IF IsNull(a) \/ IsNull(b) THEN NaN ELSE Num(a.n * b.d + b.n * a.d, a.d * b.d)

SubCell(a, b) ==
    IF IsNull(a) \/ IsNull(b) THEN NaN ELSE Num(a.n * b.d - b.n * a.d, a.d * b.d)

MulCell(a, b) ==
    IF IsNull(a) \/ IsNull(b) THEN NaN ELSE Num(a.n * b.n, a.d * b.d)

\* a / b for b # 0
DivCell(a, b) ==
    IF IsNull(a) \/ IsNull(b) THEN NaN ELSE Num(a.n * b.d, a.d * b.n)

LessCell(a, b) == a.n * b.d < b.n * a.d

\* "YYYY-MM" labels compare as strings: by year, then by month
MonthLess(a, b) == a.y < b.y \/ (a.y = b.y /\ a.m < b.m)

-----------------------------------------------------------------------------
(* DataFrames.                                                             *)

Frame(columns, rows) == [k |-> "frame", columns |-> columns, rows |-> rows]

Column(df, col) == [i \in DOMAIN df.rows |-> df.rows[i][col]]

\* df[cols]
Select(df, cols) ==
    Frame(cols, [i \in DOMAIN df.rows |-> [c \in cols |-> df.rows[i][c]]])

\* df[col] = values   (values aligned with the rows)
Assign(df, col, values) ==
    Frame(df.columns \cup {col},
          [i \in DOMAIN df.rows |->
              [c \in df.columns \cup {col} |->
                  IF c = col THEN values[i] ELSE df.rows[i][c]]])

\* Series.isnull().sum()
CountNull(series) == Cardinality({i \in DOMAIN series : IsNull(series[i])})

RECURSIVE SumFrom(_, _)
\* Series.sum(): the missing values are skipped, and the empty sum is 0
SumFrom(series, i) ==
    IF i > Len(series) THEN Int2Num(0)
    ELSE IF IsNull(series[i]) THEN SumFrom(series, i + 1)
    ELSE AddCell(series[i], SumFrom(series, i + 1))

SeriesSum(series) == SumFrom(series, 1)

\* Series.mean(): over the values that are not missing; NaN when there is none
SeriesMean(series) ==
    LET count == Len(series) - CountNull(series)
    IN  IF count = 0 THEN NaN ELSE DivCell(SeriesSum(series), Int2Num(count))

\* Series.fillna(value)
FillNa(series, value) ==
    [i \in DOMAIN series |-> IF IsNull(series[i]) THEN value ELSE series[i]]

\* pd.api.types.is_numeric_dtype: read_excel gives a column a numeric dtype
\* when it holds numbers (and blanks) only; an empty column has dtype object
IsNumericDtype(series) ==
    /\ Len(series) > 0
    /\ \A i \in DOMAIN series : series[i].k \in {"num", "nan"}

\* The texts that read as a number, with the number each reads as.
NumberText == ("20" :> Int2Num(20))

\* pd.to_numeric(series, errors='coerce')
ToNumeric(series) ==
    [i \in DOMAIN series |->
        CASE series[i].k = "num" -> series[i]
          [] series[i].k = "str" /\ series[i].s \in DOMAIN NumberText
                -> NumberText[series[i].s]
          [] OTHER -> NaN]

\* pd.api.types.is_datetime64_any_dtype: a column of timestamps (and blanks)
IsDatetimeDtype(series) ==
    /\ \E i \in DOMAIN series : series[i].k = "ts"
    /\ \A i \in DOMAIN series : series[i].k \in {"ts", "nan"}

\* The texts that read as a date, with the date each reads as.
DateText == ("2022-01-05" :> Ts(2022, 1, 5))

Parseable(c) ==
    \/ c.k \in {"ts", "nan"}
    \/ c.k = "str" /\ c.s \in DOMAIN DateText

\* pd.to_datetime(series), for a series it does not raise on
ToDatetime(series) ==
    [i \in DOMAIN series |->
        IF series[i].k = "str" THEN DateText[series[i].s] ELSE series[i]]

\* Series.dt.strftime('%Y-%m') and Series.dt.to_period('M'): NaT gives NaN/NaT
ToMonth(series) ==
    [i \in DOMAIN series |->
        IF series[i].k = "ts" THEN Month(series[i].y, series[i].m) ELSE NaN]


\* The order of the texts used as categories (Python compares str by code point).
TextOrder == <<"food", "toys">>

TextRank(s) == CHOOSE i \in DOMAIN TextOrder : TextOrder[i] = s

\* The order of the values of one key column: month labels, or texts.
CellLess(a, b) ==
    IF a.k = "month" THEN MonthLess(a, b) ELSE TextRank(a.s) < TextRank(b.s)

RECURSIVE KeyLessFrom(_, _, _, _)
\* Group keys compare column by column, in the order of the key columns.
KeyLessFrom(a, b, keys, i) ==
    /\ i <= Len(keys)
    /\ \/ CellLess(a[keys[i]], b[keys[i]])
       \/ a[keys[i]] = b[keys[i]] /\ KeyLessFrom(a, b, keys, i + 1)

KeyLess(a, b, keys) == KeyLessFrom(a, b, keys, 1)

RECURSIVE SortKeys(_, _)
\* The set S of group keys as a sequence in ascending order.
SortKeys(S, keys) ==
    IF S = {} THEN <<>>
    ELSE LET least == CHOOSE x \in S : \A y \in S \ {x} : KeyLess(x, y, keys)
         IN  <<least>> \o SortKeys(S \ {least}, keys)

Range(seq) == {seq[i] : i \in DOMAIN seq}

\* One left row joined with the right rows of the same key, in their order;
\* with no such right row, the left row with the right columns missing.
JoinedRows(lrow, right, on) ==
    LET matches == SelectSeq(right.rows, LAMBDA r : r[on] = lrow[on])
        added == right.columns \ {on}
    IN  IF matches = <<>>
        THEN << [c \in DOMAIN lrow \cup added |->
                    IF c \in DOMAIN lrow THEN lrow[c] ELSE NaN] >>
        ELSE [j \in DOMAIN matches |->
                 [c \in DOMAIN lrow \cup added |->
                    IF c \in DOMAIN lrow THEN lrow[c] ELSE matches[j][c]]]

RECURSIVE MergeFrom(_, _, _, _)
MergeFrom(left, right, on, i) ==
    IF i > Len(left.rows) THEN <<>>
    ELSE JoinedRows(left.rows[i], right, on) \o MergeFrom(left, right, on, i + 1)

\* An inner join: the left rows without a match are dropped.
MergeInner(left, right, on) ==
    Frame(left.columns \cup right.columns,
          SelectSeq(MergeFrom(left, right, on, 1),
                    LAMBDA r : \E j \in DOMAIN right.rows : right.rows[j][on] = r[on]))

\* pd.merge(left, right, on=on, how='left'): the left rows in their order
Merge(left, right, on) ==
    Frame(left.columns \cup right.columns, MergeFrom(left, right, on, 1))

\* df.groupby(keys)[val].sum().reset_index(): one row per key present, the keys
\* ascending; a row with a missing key is dropped (dropna=True), a missing value
\* is skipped by the sum.
GroupBySum(df, keys, val) ==
    LET KeyOf(row) == [c \in Range(keys) |-> row[c]]
        present == {KeyOf(df.rows[i]) : i \in DOMAIN df.rows}
        groups == {g \in present : \A c \in Range(keys) : ~IsNull(g[c])}
        sorted == SortKeys(groups, keys)
        Members(g) == SelectSeq(df.rows, LAMBDA r : KeyOf(r) = g)
    IN  Frame(Range(keys) \cup {val},
              [n \in DOMAIN sorted |->
                  [c \in Range(keys) \cup {val} |->
                      IF c = val
                      THEN SeriesSum(Column(Frame(df.columns, Members(sorted[n])), val))
                      ELSE sorted[n][c]]])

\* The row r put into the ascending rows after those that are not greater.
InsertRow(rows, r, col) ==
    LET p == Cardinality({i \in DOMAIN rows : ~CellLess(r[col], rows[i][col])})
    IN  SubSeq(rows, 1, p) \o <<r>> \o SubSeq(rows, p + 1, Len(rows))

RECURSIVE SortRows(_, _)
SortRows(rows, col) ==
    IF rows = <<>> THEN <<>>
    ELSE InsertRow(SortRows(SubSeq(rows, 1, Len(rows) - 1), col), rows[Len(rows)], col)

\* df.sort_values(col): a stable sort, ascending
SortValues(df, col) == Frame(df.columns, SortRows(df.rows, col))

-----------------------------------------------------------------------------
(* SalesDataAnalyzer (homework_1_improved.py).                             *)

\* load_data: an absent file raises before anything is read; a missing sheet
\* makes read_excel raise, the sheet read before it staying assigned.
load_data ==
    /\ call' = "load_data"
    /\ IF ~workbook.exists
       THEN outcome' = "FileNotFoundError" /\ UNCHANGED <<df_info, df_sales>>
       ELSE IF "info" \notin DOMAIN workbook.sheets
       THEN outcome' = "ValueError" /\ UNCHANGED <<df_info, df_sales>>
       ELSE IF "sales" \notin DOMAIN workbook.sheets
       THEN /\ df_info' = workbook.sheets["info"]
            /\ outcome' = "ValueError"
            /\ UNCHANGED df_sales
       ELSE /\ df_info' = workbook.sheets["info"]
            /\ df_sales' = workbook.sheets["sales"]
            /\ outcome' = "ok"
    /\ UNCHANGED <<workbook, df_merged, monthly_sales, missing_prices, report,
                   growth, monthly_category_sales, pivot_data, processed>>

NotLoaded == df_info = None \/ df_sales = None

required_info_cols == {"product_id", "unit_price"}

required_sales_cols == {"order_date", "product_id", "quantity"}

\* Every text of the price column is lost, those that read as a number too.
CleanedTextLost(info) ==
    IF ~IsNumericDtype(Column(info, "unit_price"))
    THEN Assign(info, "unit_price",
                [i \in DOMAIN info.rows |->
                    IF info.rows[i]["unit_price"].k = "num"
                    THEN info.rows[i]["unit_price"] ELSE NaN])
    ELSE info

\* lines 101-104: the price column made numeric, in self.df_info itself
Cleaned(info) ==
    IF ~IsNumericDtype(Column(info, "unit_price"))
    THEN Assign(info, "unit_price", ToNumeric(Column(info, "unit_price")))
    ELSE info

validate_and_clean_data ==
    /\ call' = "validate_and_clean_data"
    /\ IF NotLoaded
       THEN outcome' = "ValueError" /\ UNCHANGED df_info
       ELSE IF \/ ~(required_info_cols \subseteq df_info.columns)
               \/ ~(required_sales_cols \subseteq df_sales.columns)
       THEN outcome' = "ValueError" /\ UNCHANGED df_info
       ELSE outcome' = "ok" /\ df_info' = Cleaned(df_info)
    /\ UNCHANGED <<workbook, df_sales, df_merged, monthly_sales, missing_prices,
                   report, growth, monthly_category_sales, pivot_data, processed>>

\* lines 116-122: the transactions left-joined with the catalog's prices
Joined(sales, info) ==
    Merge(sales, Select(info, {"product_id", "unit_price"}), "product_id")

\* The joined rows whose price is known are counted.
KnownPrices(merged) ==
    Len(merged.rows) - CountNull(Column(merged, "unit_price"))

\* line 125: the joined rows whose price is missing
MissingPrices(merged) == CountNull(Column(merged, "unit_price"))

\* lines 126-130: the missing prices filled with the catalog's mean price
Filled(merged, info) ==
    LET avg_price == SeriesMean(Column(info, "unit_price"))
    IN  IF MissingPrices(merged) > 0
        THEN Assign(merged, "unit_price",
                    FillNa(Column(merged, "unit_price"), avg_price))
        ELSE merged

\* line 133: revenue = quantity * unit_price, row by row
WithRevenue(df) ==
    Assign(df, "revenue",
           [i \in DOMAIN df.rows |->
               MulCell(df.rows[i]["quantity"], df.rows[i]["unit_price"])])

\* lines 136-137: whether the order dates have to be parsed, and whether they can
NeedsParsing(df) == ~IsDatetimeDtype(Column(df, "order_date"))

CanParse(df) == \A i \in DOMAIN df.rows : Parseable(df.rows[i]["order_date"])

\* lines 136-140: the dates as timestamps, and the month label of each row
WithMonth(df) ==
    LET dated == IF NeedsParsing(df)
                 THEN Assign(df, "order_date", ToDatetime(Column(df, "order_date")))
                 ELSE df
    IN  Assign(dated, "month", ToMonth(Column(dated, "order_date")))

\* lines 143-144: the revenue summed by month, the months ascending
MonthlySales(df) == SortValues(GroupBySum(df, <<"month">>, "revenue"), "month")

\* process_data assigns self.df_merged first and adds the columns to it one by
\* one: an exception leaves the table as far as it got, and the summary as it was.
process_data ==
    /\ call' = "process_data"
    /\ IF NotLoaded
       THEN /\ outcome' = "ValueError"
            /\ UNCHANGED <<df_merged, monthly_sales, missing_prices>>
       ELSE IF \/ ~({"product_id", "unit_price"} \subseteq df_info.columns)
               \/ "product_id" \notin df_sales.columns
       THEN /\ outcome' = "KeyError"
            /\ UNCHANGED <<df_merged, monthly_sales, missing_prices>>
       ELSE LET merged == Joined(df_sales, df_info)
                filled == Filled(merged, df_info)
            IN  /\ missing_prices' = MissingPrices(merged)
                /\ IF "quantity" \notin filled.columns
                   THEN /\ df_merged' = filled
                        /\ outcome' = "KeyError"
                        /\ UNCHANGED monthly_sales
                   ELSE IF "order_date" \notin filled.columns
                   THEN /\ df_merged' = WithRevenue(filled)
                        /\ outcome' = "KeyError"
                        /\ UNCHANGED monthly_sales
                   ELSE IF NeedsParsing(filled) /\ ~CanParse(filled)
                   THEN /\ df_merged' = WithRevenue(filled)
                        /\ outcome' = "DateParseError"
                        /\ UNCHANGED monthly_sales
                   ELSE /\ df_merged' = WithMonth(WithRevenue(filled))
                        /\ monthly_sales' = MonthlySales(WithMonth(WithRevenue(filled)))
                        /\ outcome' = "ok"
    /\ processed' = (processed \/ outcome' = "ok")
    /\ UNCHANGED <<workbook, df_info, df_sales, report, growth,
                   monthly_category_sales, pivot_data>>


NotProcessed == df_merged = None \/ monthly_sales = None

\* The fraction rather than the percentage.
GrowthFraction(summary) ==
    LET revenue == Column(summary, "revenue")
    IN  IF Len(revenue) < 2 THEN Int2Num(0)
        ELSE IF revenue[1] = Int2Num(0) THEN Int2Num(0)
        ELSE DivCell(SubCell(revenue[Len(revenue)], revenue[1]), revenue[1])

\* calculate_growth_rate, lines 270-279: iloc[0] and iloc[-1] of the summary
GrowthRate(summary) ==
    LET revenue == Column(summary, "revenue")
        first_month == revenue[1]
        last_month == revenue[Len(revenue)]
    IN  IF Len(revenue) < 2 THEN Int2Num(0)
        ELSE IF first_month = Int2Num(0) THEN Int2Num(0)
        ELSE MulCell(DivCell(SubCell(last_month, first_month), first_month),
                     Int2Num(100))

\* Series.max() / Series.min() of a series of numbers that is not empty
SeriesMax(series) ==
    series[CHOOSE i \in DOMAIN series :
              \A j \in DOMAIN series : ~LessCell(series[i], series[j])]

SeriesMin(series) ==
    series[CHOOSE i \in DOMAIN series :
              \A j \in DOMAIN series : ~LessCell(series[j], series[i])]

\* Series.idxmax() / Series.idxmin(): the first row holding the extreme
IdxMax(series) ==
    CHOOSE i \in DOMAIN series :
        /\ series[i] = SeriesMax(series)
        /\ \A j \in 1..(i - 1) : series[j] # SeriesMax(series)

IdxMin(series) ==
    CHOOSE i \in DOMAIN series :
        /\ series[i] = SeriesMin(series)
        /\ \A j \in 1..(i - 1) : series[j] # SeriesMin(series)

\* lines 249-264, for a summary that is not empty
Report(merged, summary) ==
    LET revenue == Column(summary, "revenue")
    IN  [total_orders |-> Len(merged.rows),
         total_months |-> Len(summary.rows),
         total_sales |-> SeriesSum(revenue),
         avg_monthly_sales |-> SeriesMean(revenue),
         max_monthly_sales |-> SeriesMax(revenue),
         min_monthly_sales |-> SeriesMin(revenue),
         best_month |-> summary.rows[IdxMax(revenue)]["month"],
         worst_month |-> summary.rows[IdxMin(revenue)]["month"],
         sales_growth_rate |-> GrowthRate(summary),
         monthly_details |-> summary.rows]

\* generate_report: idxmax raises ValueError on an empty summary, before the
\* growth rate is asked for.
generate_report ==
    /\ call' = "generate_report"
    /\ IF NotProcessed
       THEN outcome' = "ValueError" /\ UNCHANGED <<report, growth>>
       ELSE IF monthly_sales.rows = <<>>
       THEN outcome' = "ValueError" /\ UNCHANGED <<report, growth>>
       ELSE /\ report' = Report(df_merged, monthly_sales)
            /\ growth' = GrowthRate(monthly_sales)
            /\ outcome' = "ok"
    /\ UNCHANGED <<workbook, df_info, df_sales, df_merged, monthly_sales,
                   missing_prices, monthly_category_sales, pivot_data, processed>>

\* calculate_growth_rate called on its own: len(None) raises TypeError
calculate_growth_rate ==
    /\ call' = "calculate_growth_rate"
    /\ IF monthly_sales = None
       THEN outcome' = "TypeError" /\ UNCHANGED growth
       ELSE outcome' = "ok" /\ growth' = GrowthRate(monthly_sales)
    /\ UNCHANGED <<workbook, df_info, df_sales, df_merged, monthly_sales,
                   missing_prices, report, monthly_category_sales, pivot_data,
                   processed>>

\* The enriched table is checked in place of the summary.
NoEnrichedTable == df_merged = None

\* line 166
NoSummary == monthly_sales = None

\* create_sales_trend_chart: the drawing itself is the renderer's, and changes
\* nothing of the analyzer.
create_sales_trend_chart ==
    /\ call' = "create_sales_trend_chart"
    /\ outcome' = IF NoSummary THEN "ValueError" ELSE "ok"
    /\ UNCHANGED <<workbook, df_info, df_sales, df_merged, monthly_sales,
                   missing_prices, report, growth, monthly_category_sales,
                   pivot_data, processed>>

-----------------------------------------------------------------------------
(* Workbooks.                                                              *)

SeqsUpTo(S, n) == UNION {[1..m -> S] : m \in 0..n}

Book(info, sales) ==
    [exists |-> TRUE, sheets |-> [info |-> info, sales |-> sales]]

NoBook == [exists |-> FALSE]

InfoOnly(info) == [exists |-> TRUE, sheets |-> [info |-> info]]

SalesOnly(sales) == [exists |-> TRUE, sheets |-> [sales |-> sales]]

Tables(columns, rowset, n) == {Frame(columns, rows) : rows \in SeqsUpTo(rowset, n)}

\* Catalogs of products A and B whose price is a number, a blank, a text that
\* reads as a number or a text that does not; and catalogs without the price
\* column.
VariedCatalogs ==
    Tables({"product_id", "unit_price"},
           {[product_id |-> Str(p), unit_price |-> u] :
               p \in {"A", "B"},
               u \in {NaN, Int2Num(10), Str("20"), Str("abc")}},
           MaxCat)
    \cup Tables({"product_id"}, {[product_id |-> Str(p)] : p \in {"A", "B"}}, MaxCat)

\* Transactions of two units each, dated by a text that reads as a date; and
\* transaction tables without the quantity column.
PlainSales ==
    Tables({"order_date", "product_id", "quantity"},
           {[order_date |-> Str("2022-01-05"), product_id |-> Str(p),
             quantity |-> Int2Num(2)] : p \in {"A", "B"}},
           MaxSales)
    \cup Tables({"order_date", "product_id"},
                {[order_date |-> Str("2022-01-05"), product_id |-> Str(p)] :
                    p \in {"A", "B"}},
                MaxSales)

\* Catalogs of product A alone, priced 10 or not priced.
PlainCatalogs ==
    Tables({"product_id", "unit_price"},
           {[product_id |-> Str("A"), unit_price |-> u] : u \in {NaN, Int2Num(10)}},
           MaxCat)

\* Transactions of products A and B, of 0 or 2 units, dated in two months of
\* two years, not dated, or dated by a text that is no date.
VariedSales ==
    Tables({"order_date", "product_id", "quantity"},
           {[order_date |-> t, product_id |-> Str(p), quantity |-> Int2Num(q)] :
               t \in {Ts(2021, 12, 31), Ts(2022, 1, 5), NaN, Str("N/A")},
               p \in {"A", "B"},
               q \in {0, 2}},
           MaxSales)

\* A file that is absent, or lacks one of the two sheets.
BrokenBooks ==
    {NoBook, InfoOnly(Frame({"product_id", "unit_price"}, <<>>)),
     SalesOnly(Frame({"order_date", "product_id", "quantity"}, <<>>))}

\* The workbooks main() is run on: varied catalogs with plain transactions,
\* plain catalogs with varied transactions, and the broken files.
IsWorkbook(w) ==
    \/ \E c \in VariedCatalogs, t \in PlainSales : w = Book(c, t)
    \/ \E c \in PlainCatalogs, t \in VariedSales : w = Book(c, t)
    \/ w \in BrokenBooks

-----------------------------------------------------------------------------
(* main() of homework_1_improved.py: the five stages in order, any exception *)
(* ending the run with exit code 1.                                        *)

Fresh ==
    /\ df_info = None
    /\ df_sales = None
    /\ df_merged = None
    /\ monthly_sales = None
    /\ missing_prices = None
    /\ report = None
    /\ growth = None
    /\ monthly_category_sales = None
    /\ pivot_data = None
    /\ call = "__init__"
    /\ outcome = "ok"
    /\ processed = FALSE

Then(next) == pc' = IF outcome' = "ok" THEN next ELSE "failed"

MainLoad == pc = "load" /\ load_data /\ Then("validate")

MainValidate == pc = "validate" /\ validate_and_clean_data /\ Then("process")

MainProcess == pc = "process" /\ process_data /\ Then("report")

MainReport == pc = "report" /\ generate_report /\ Then("chart")

MainChart == pc = "chart" /\ create_sales_trend_chart /\ Then("done")

Init == IsWorkbook(workbook) /\ Fresh /\ pc = "load"

Next == MainLoad \/ MainValidate \/ MainProcess \/ MainReport \/ MainChart

Spec == Init /\ [][Next]_vars

-----------------------------------------------------------------------------
(* Any sequence of calls on one SalesDataAnalyzer, the file being rewritten *)
(* between the calls.                                                      *)

\* One priced product; transactions dated in January or by a text that is no
\* date.
ApiCatalog ==
    Frame({"product_id", "unit_price"},
          << [product_id |-> Str("A"), unit_price |-> Int2Num(10)] >>)

ApiSales ==
    Tables({"order_date", "product_id", "quantity"},
           {[order_date |-> t, product_id |-> Str("A"), quantity |-> Int2Num(2)] :
               t \in {Ts(2022, 1, 5), Str("N/A")}},
           MaxApiRows)

\* Sheets that lack one of the columns process_data reads.
ApiJanuary ==
    [order_date |-> Ts(2022, 1, 5), product_id |-> Str("A"), quantity |-> Int2Num(2)]

LackingColumn ==
    {Book(Select(ApiCatalog, {"product_id"}), Frame(DOMAIN ApiJanuary, <<ApiJanuary>>))}
    \cup {Book(ApiCatalog, Select(Frame(DOMAIN ApiJanuary, <<ApiJanuary>>),
                                  DOMAIN ApiJanuary \ {c})) : c \in DOMAIN ApiJanuary}

ApiWorkbooks ==
    {Book(ApiCatalog, t) : t \in ApiSales}
    \cup LackingColumn
    \cup {NoBook, InfoOnly(ApiCatalog)}

ApiLoad == load_data /\ UNCHANGED pc

ApiValidate == validate_and_clean_data /\ UNCHANGED pc

ApiProcess == process_data /\ UNCHANGED pc

ApiReport == generate_report /\ UNCHANGED pc

ApiGrowth == calculate_growth_rate /\ UNCHANGED pc

ApiChart == create_sales_trend_chart /\ UNCHANGED pc

\* The file is replaced on disk.
Rewrite ==
    /\ workbook' \in ApiWorkbooks \ {workbook}
    /\ call' = "rewrite"
    /\ outcome' = "ok"
    /\ UNCHANGED <<df_info, df_sales, df_merged, monthly_sales, missing_prices,
                   report, growth, monthly_category_sales, pivot_data, processed,
                   pc>>

InitApi == workbook \in ApiWorkbooks /\ Fresh /\ pc = "api"

NextApi ==
    \/ ApiLoad
    \/ ApiValidate
    \/ ApiProcess
    \/ ApiReport
    \/ ApiGrowth
    \/ ApiChart
    \/ Rewrite

SpecApi == InitApi /\ [][NextApi]_vars

-----------------------------------------------------------------------------
(* homework_2.py: the script, statement by statement; an exception ends it. *)

RECURSIVE SortCells(_)
\* The set S of month labels, or of texts, as a sequence in ascending order.
SortCells(S) ==
    IF S = {} THEN <<>>
    ELSE LET least == CHOOSE x \in S : \A y \in S \ {x} : CellLess(x, y)
         IN  <<least>> \o SortCells(S \ {least})

\* A pair without a row of its own holds 0.
PivotZero(df, index, columns, values) ==
    LET rowkeys == {df.rows[i][index] : i \in DOMAIN df.rows}
        colkeys == {df.rows[i][columns] : i \in DOMAIN df.rows}
    IN  [k |-> "pivot",
         index |-> SortCells(rowkeys),
         columns |-> SortCells(colkeys),
         values |->
            [r \in rowkeys |->
                [c \in colkeys |->
                    IF \E i \in DOMAIN df.rows :
                          df.rows[i][index] = r /\ df.rows[i][columns] = c
                    THEN df.rows[CHOOSE i \in DOMAIN df.rows :
                            df.rows[i][index] = r /\ df.rows[i][columns] = c][values]
                    ELSE Int2Num(0)]]]

\* df.pivot(index, columns, values), for a table in which no (index, columns)
\* pair occurs twice: the index values ascending as rows, the column values
\* ascending as columns, a pair without a row of its own missing (NaN).
Pivot(df, index, columns, values) ==
    LET rowkeys == {df.rows[i][index] : i \in DOMAIN df.rows}
        colkeys == {df.rows[i][columns] : i \in DOMAIN df.rows}
    IN  [k |-> "pivot",
         index |-> SortCells(rowkeys),
         columns |-> SortCells(colkeys),
         values |->
            [r \in rowkeys |->
                [c \in colkeys |->
                    IF \E i \in DOMAIN df.rows :
                          df.rows[i][index] = r /\ df.rows[i][columns] = c
                    THEN df.rows[CHOOSE i \in DOMAIN df.rows :
                            df.rows[i][index] = r /\ df.rows[i][columns] = c][values]
                    ELSE NaN]]]

\* Catalogs of products A and B, priced 10, of the categories food and toys.
CategoryCatalogs ==
    Tables({"product_id", "unit_price", "category"},
           {[product_id |-> Str(p), unit_price |-> Int2Num(10), category |-> Str(g)] :
               p \in {"A", "B"}, g \in {"food", "toys"}},
           MaxCat)

\* Transactions of products A and B, of 2 units, dated in two months or by a
\* text that is no date.
DatedSales ==
    Tables({"order_date", "product_id", "quantity"},
           {[order_date |-> t, product_id |-> Str(p), quantity |-> Int2Num(2)] :
               t \in {Ts(2021, 12, 31), Ts(2022, 1, 5), Str("N/A")},
               p \in {"A", "B"}},
           MaxSales)

ScriptUnchanged ==
    UNCHANGED <<workbook, monthly_sales, missing_prices, report, growth, processed>>

\* lines 10-11
S2Read ==
    /\ pc = "read"
    /\ call' = "read_excel"
    /\ IF workbook.exists
       THEN /\ df_info' = workbook.sheets["info"]
            /\ df_sales' = workbook.sheets["sales"]
            /\ outcome' = "ok"
       ELSE outcome' = "FileNotFoundError" /\ UNCHANGED <<df_info, df_sales>>
    /\ Then("merge")
    /\ UNCHANGED <<df_merged, monthly_category_sales, pivot_data>>
    /\ ScriptUnchanged

\* line 15: the whole catalog is joined
S2Merge ==
    /\ pc = "merge"
    /\ call' = "merge"
    /\ df_merged' = Merge(df_sales, df_info, "product_id")
    /\ outcome' = "ok"
    /\ Then("revenue")
    /\ UNCHANGED <<df_info, df_sales, monthly_category_sales, pivot_data>>
    /\ ScriptUnchanged

\* line 18
S2Revenue ==
    /\ pc = "revenue"
    /\ call' = "revenue"
    /\ df_merged' = WithRevenue(df_merged)
    /\ outcome' = "ok"
    /\ Then("dates")
    /\ UNCHANGED <<df_info, df_sales, monthly_category_sales, pivot_data>>
    /\ ScriptUnchanged

\* line 21: to_datetime is called whatever the dtype
S2Dates ==
    /\ pc = "dates"
    /\ call' = "to_datetime"
    /\ IF CanParse(df_merged)
       THEN /\ df_merged' = Assign(df_merged, "order_date",
                                   ToDatetime(Column(df_merged, "order_date")))
            /\ outcome' = "ok"
       ELSE outcome' = "DateParseError" /\ UNCHANGED df_merged
    /\ Then("month")
    /\ UNCHANGED <<df_info, df_sales, monthly_category_sales, pivot_data>>
    /\ ScriptUnchanged

\* line 22
S2Month ==
    /\ pc = "month"
    /\ call' = "to_period"
    /\ df_merged' = Assign(df_merged, "month", ToMonth(Column(df_merged, "order_date")))
    /\ outcome' = "ok"
    /\ Then("group")
    /\ UNCHANGED <<df_info, df_sales, monthly_category_sales, pivot_data>>
    /\ ScriptUnchanged

\* line 26
S2Group ==
    /\ pc = "group"
    /\ call' = "groupby"
    /\ monthly_category_sales' = GroupBySum(df_merged, <<"month", "category">>, "revenue")
    /\ outcome' = "ok"
    /\ Then("pivot")
    /\ UNCHANGED <<df_info, df_sales, df_merged, pivot_data>>
    /\ ScriptUnchanged

\* line 34
S2Pivot ==
    /\ pc = "pivot"
    /\ call' = "pivot"
    /\ pivot_data' = Pivot(monthly_category_sales, "month", "category", "revenue")
    /\ outcome' = "ok"
    /\ Then("plot")
    /\ UNCHANGED <<df_info, df_sales, df_merged, monthly_category_sales>>
    /\ ScriptUnchanged

InitPivot ==
    /\ \/ \E c \in CategoryCatalogs, t \in DatedSales : workbook = Book(c, t)
       \/ workbook = NoBook
    /\ Fresh
    /\ pc = "read"

NextPivot ==
    S2Read \/ S2Merge \/ S2Revenue \/ S2Dates \/ S2Month \/ S2Group \/ S2Pivot

SpecPivot == InitPivot /\ [][NextPivot]_vars

-----------------------------------------------------------------------------
(* Properties of the pipeline run by main() (Spec).                        *)

CatalogIds(info) == {info.rows[j]["product_id"] : j \in DOMAIN info.rows}

UniqueIds(info) ==
    \A i, j \in DOMAIN info.rows :
        info.rows[i]["product_id"] = info.rows[j]["product_id"] => i = j

\* The transaction rows whose product is not in the catalog.
UnmatchedRows ==
    {i \in DOMAIN df_sales.rows :
        df_sales.rows[i]["product_id"] \notin CatalogIds(df_info)}

\* process_data has joined the tables: it returned, or failed on the dates.
JoinDone == call = "process_data" /\ outcome \in {"ok", "DateParseError"}

ProcessDone == call = "process_data" /\ outcome = "ok"

\* C1: when the product identifiers of the catalog are unique, the enriched
\* table has as many rows as the transaction table, and its i-th row is the
\* i-th transaction, matched or not.
C1_JoinCompleteness ==
    (JoinDone /\ UniqueIds(df_info)) =>
        /\ Len(df_merged.rows) = Len(df_sales.rows)
        /\ \A i \in DOMAIN df_sales.rows :
              /\ df_merged.rows[i]["product_id"] = df_sales.rows[i]["product_id"]
              /\ df_merged.rows[i]["quantity"] = df_sales.rows[i]["quantity"]

C1_Witness ==
    /\ JoinDone
    /\ UniqueIds(df_info)
    /\ UnmatchedRows # {}
    /\ UnmatchedRows # DOMAIN df_sales.rows

\* C2: after process_data, every enriched row has revenue = quantity *
\* unit_price, and every month of the summary has a row whose revenue is known:
\* a month all of whose rows have an unknown price is not in the summary.
C2_RevenueCorrectness ==
    ProcessDone =>
        /\ \A i \in DOMAIN df_merged.rows :
              df_merged.rows[i]["revenue"] =
                  MulCell(df_merged.rows[i]["quantity"], df_merged.rows[i]["unit_price"])
        /\ \A n \in DOMAIN monthly_sales.rows :
              \E i \in DOMAIN df_merged.rows :
                  /\ df_merged.rows[i]["month"] = monthly_sales.rows[n]["month"]
                  /\ ~IsNull(df_merged.rows[i]["revenue"])

\* C3: after process_data, the revenues of the monthly summary add up to the
\* known revenues of the enriched table.
C3_AggregationConservation ==
    ProcessDone =>
        SeriesSum(Column(monthly_sales, "revenue"))
            = SeriesSum(Column(df_merged, "revenue"))

\* The row of the summary with the smallest (Least) or the largest month.
ExtremeRow(summary, Least) ==
    CHOOSE n \in DOMAIN summary.rows :
        \A o \in DOMAIN summary.rows \ {n} :
            IF Least
            THEN MonthLess(summary.rows[n]["month"], summary.rows[o]["month"])
            ELSE MonthLess(summary.rows[o]["month"], summary.rows[n]["month"])

\* C5: the growth rate is 0 for a summary of fewer than 2 rows and when the
\* revenue of the earliest month is 0; otherwise it is the number g with
\* g * first = (last - first) * 100, first and last being the revenues of the
\* rows with the smallest and the largest month.
C5_GrowthRate ==
    (call \in {"generate_report", "calculate_growth_rate"} /\ outcome = "ok") =>
        IF Len(monthly_sales.rows) < 2 THEN growth = Int2Num(0)
        ELSE LET first == monthly_sales.rows[ExtremeRow(monthly_sales, TRUE)]["revenue"]
                 last == monthly_sales.rows[ExtremeRow(monthly_sales, FALSE)]["revenue"]
             IN  IF first = Int2Num(0) THEN growth = Int2Num(0)
                 ELSE /\ IsNumber(growth)
                      /\ MulCell(growth, first)
                            = MulCell(SubCell(last, first), Int2Num(100))

\* the clamp with a last month that sold, and a rate that is not 0
C5_Witness ==
    /\ call = "generate_report"
    /\ outcome = "ok"
    /\ Len(monthly_sales.rows) = 2
    /\ growth # Int2Num(0)

\* C6: after the join, a row whose product is not in the catalog has the mean
\* of the known catalog prices as its price, and 0 when the catalog knows no
\* price.
C6_FallbackPrice ==
    JoinDone =>
        \A i \in DOMAIN df_merged.rows :
            df_merged.rows[i]["product_id"] \notin CatalogIds(df_info) =>
                df_merged.rows[i]["unit_price"] =
                    IF \E j \in DOMAIN df_info.rows :
                          ~IsNull(df_info.rows[j]["unit_price"])
                    THEN SeriesMean(Column(df_info, "unit_price"))
                    ELSE Int2Num(0)

\* C7 as stated: the count process_data reports is the number of transaction
\* rows whose product is not in the catalog.
C7_UnmatchedCount ==
    JoinDone => missing_prices = Cardinality(UnmatchedRows)

\* The pairs of a transaction row and a catalog row of its product whose price
\* is missing.
NullPricedMatches ==
    {<<i, j>> \in (DOMAIN df_sales.rows) \X (DOMAIN df_info.rows) :
        /\ df_sales.rows[i]["product_id"] = df_info.rows[j]["product_id"]
        /\ IsNull(df_info.rows[j]["unit_price"])}

\* C7 as amended: the count process_data reports is the number of joined rows
\* without a price: the transaction rows whose product is not in the catalog,
\* and the rows joined with a catalog row whose price is missing.
C7_NullPriceCount ==
    JoinDone =>
        missing_prices = Cardinality(UnmatchedRows) + Cardinality(NullPricedMatches)

C7_Witness ==
    /\ JoinDone
    /\ UnmatchedRows # {}
    /\ NullPricedMatches # {}

\* C8 as stated: validate_and_clean_data leaves both tables as they were.
C8_ValidateIsPure ==
    [][call' = "validate_and_clean_data" => UNCHANGED <<df_info, df_sales>>]_vars

\* C8 as amended: validate_and_clean_data leaves the transactions as they were,
\* and the catalog too when it raises; when it returns, the catalog has the
\* rows and the columns it had, and only the texts of the price column have
\* changed, each to the number it reads as, or to the missing value.
C8_ValidateCoercesPrices ==
    [][call' = "validate_and_clean_data" =>
        /\ df_sales' = df_sales
        /\ outcome' # "ok" => df_info' = df_info
        /\ outcome' = "ok" =>
            /\ df_info'.columns = df_info.columns
            /\ Len(df_info'.rows) = Len(df_info.rows)
            /\ \A i \in DOMAIN df_info.rows :
                LET old == df_info.rows[i]
                    new == df_info'.rows[i]
                IN  /\ \A c \in df_info.columns \ {"unit_price"} : new[c] = old[c]
                    /\ old["unit_price"].k # "str" => new["unit_price"] = old["unit_price"]
                    /\ old["unit_price"].k = "str" =>
                          new["unit_price"] =
                              IF old["unit_price"].s \in DOMAIN NumberText
                              THEN NumberText[old["unit_price"].s] ELSE NaN
      ]_vars

\* validation returned, and the catalog is not the sheet that was loaded: a
\* text that reads as a number and one that does not were both replaced
C8_Witness ==
    /\ call = "validate_and_clean_data"
    /\ outcome = "ok"
    /\ \E i \in DOMAIN df_info.rows :
          /\ workbook.sheets["info"].rows[i]["unit_price"] = Str("20")
          /\ df_info.rows[i]["unit_price"] = Int2Num(20)
    /\ \E i \in DOMAIN df_info.rows :
          /\ workbook.sheets["info"].rows[i]["unit_price"] = Str("abc")
          /\ df_info.rows[i]["unit_price"] = NaN

-----------------------------------------------------------------------------
(* Properties of sequences of calls (SpecApi).                             *)

\* C9: a process_data that fails on an order date leaves the enriched table
\* and the monthly summary as they were.
C9_FailedRunKeepsState ==
    [][(call' = "process_data" /\ outcome' = "DateParseError") =>
            UNCHANGED <<df_merged, monthly_sales>>]_vars

\* C10: validate_and_clean_data and process_data raise ValueError and change
\* nothing while a table is not loaded; generate_report and
\* create_sales_trend_chart raise ValueError while no process_data has
\* returned; and a stage that gets past its check reads no table that is None.
C10_StageOrdering ==
    [][/\ (call' \in {"validate_and_clean_data", "process_data"} /\ NotLoaded) =>
            /\ outcome' = "ValueError"
            /\ UNCHANGED <<df_info, df_sales, df_merged, monthly_sales,
                           missing_prices, report, growth>>
       /\ (call' \in {"generate_report", "create_sales_trend_chart"} /\ ~processed) =>
            outcome' = "ValueError"
       /\ (call' \in {"validate_and_clean_data", "process_data"}
              /\ outcome' # "ValueError") => ~NotLoaded
       /\ (call' = "generate_report" /\ outcome' = "ok") => ~NotProcessed
       /\ (call' = "create_sales_trend_chart" /\ outcome' = "ok") =>
            monthly_sales # None
      ]_vars

\* a report asked for after a process_data that failed on a date, which has
\* left an enriched table and no summary
C10_Witness ==
    /\ call = "generate_report"
    /\ outcome = "ValueError"
    /\ df_merged # None
    /\ monthly_sales = None
    /\ ~processed

-----------------------------------------------------------------------------
(* Properties of the script homework_2.py (SpecPivot).                     *)

SummaryMonths ==
    {monthly_category_sales.rows[n]["month"] : n \in DOMAIN monthly_category_sales.rows}

SummaryCategories ==
    {monthly_category_sales.rows[n]["category"] :
        n \in DOMAIN monthly_category_sales.rows}

SummaryRows(m, c) ==
    {n \in DOMAIN monthly_category_sales.rows :
        /\ monthly_category_sales.rows[n]["month"] = m
        /\ monthly_category_sales.rows[n]["category"] = c}

\* The pivot has a row for every month and a column for every category of the
\* summary, a cell for every pair, the cell of a pair with a summary row holding
\* that row's revenue and the cell of a pair without one holding `blank`.
PivotCompleteWith(blank) ==
    /\ Range(pivot_data.index) = SummaryMonths
    /\ Range(pivot_data.columns) = SummaryCategories
    /\ \A m \in SummaryMonths :
          /\ m \in DOMAIN pivot_data.values
          /\ \A c \in SummaryCategories :
                /\ c \in DOMAIN pivot_data.values[m]
                /\ \A n \in SummaryRows(m, c) :
                      pivot_data.values[m][c] = monthly_category_sales.rows[n]["revenue"]
                /\ SummaryRows(m, c) = {} => pivot_data.values[m][c] = blank

\* C4 as stated: every (month, category) cell of the pivot exists, and the cell
\* of a pair without a summary row holds 0.
C4_PivotZeroFilled == pc = "plot" => PivotCompleteWith(Int2Num(0))

\* C4 as amended: every (month, category) cell of the pivot exists, and the
\* cell of a pair without a summary row holds the missing value NaN.
C4_PivotComplete == pc = "plot" => PivotCompleteWith(NaN)

C4_Witness ==
    /\ pc = "plot"
    /\ \E m \in SummaryMonths, c \in SummaryCategories : SummaryRows(m, c) = {}

=============================================================================
